---- MODULE Spec2Model ----
(***************************************************************************)
(* Model of the dual-backend file resolution layer of the test report      *)
(* dashboard backend: path normalisation, the store-first / filesystem-    *)
(* fallback service functions, the download handler and the zip archive    *)
(* builder.  Strings are sequences of one-character strings.               *)
(***************************************************************************)
EXTENDS Integers, Sequences, FiniteSets, TLC

VARIABLES connected, store, pc, last, resp, archive, walk, failures, storeFailed, sent

VARIABLES fixture, fabStore, fabPc, fabIndex, fabResp

VARIABLES disk, migration

VARIABLES boot, portsInUse

serverVars == <<connected, store, pc, last, resp, archive, walk, failures, storeFailed, sent>>

fabVars == <<fixture, fabStore, fabPc, fabIndex, fabResp>>

nonServerVars ==
    <<fixture, fabStore, fabPc, fabIndex, fabResp, disk, migration, boot, portsInUse>>

nonFabVars ==
    <<connected, store, pc, last, resp, archive, walk, failures, storeFailed, sent,
      disk, migration, boot, portsInUse>>

nonBootVars ==
    <<connected, store, pc, last, resp, archive, walk, failures, storeFailed, sent,
      fixture, fabStore, fabPc, fabIndex, fabResp, disk, migration>>

vars == <<connected, store, pc, last, resp, archive, walk, failures, storeFailed, sent,
          fixture, fabStore, fabPc, fabIndex, fabResp, disk, migration, boot, portsInUse>>

(***************************************************************************)
(* Bounds                                                                  *)
(***************************************************************************)
MaxLen == 4

MaxLimit == 3

Chars == {"/", "a", "b"}

TraversalPaths ==
    { <<".", ".">>, <<".", ".", "/", "b">>, <<"a", "/", ".", ".">>, <<"/", ".", ".", "/", "b">> }

Paths == UNION {[1..k -> Chars] : k \in 0..MaxLen} \cup TraversalPaths

Queries == {<<"a">>, <<"b">>, <<"a", "b">>, <<"B">>}

Limits == 0..MaxLimit

(***************************************************************************)
(* String helpers (JavaScript String methods used by the source)           *)
(***************************************************************************)
Slash == <<"/">>

Empty == <<>>

Undefined == <<"undefined">>

RECURSIVE CollapseSlashes(_)
CollapseSlashes(s) ==
    IF Len(s) <= 1 THEN s
    ELSE IF s[1] = "/" /\ s[2] = "/" THEN CollapseSlashes(Tail(s))
    ELSE <<s[1]>> \o CollapseSlashes(Tail(s))

StripTrailingSlash(s) ==
    IF Len(s) > 0 /\ s[Len(s)] = "/" THEN SubSeq(s, 1, Len(s) - 1) ELSE s

HasSlash(s) == \E i \in 1..Len(s) : s[i] = "/"

FirstSlash(s) == CHOOSE i \in 1..Len(s) : s[i] = "/" /\ \A j \in 1..(i - 1) : s[j] # "/"

RECURSIVE Split(_)
Split(s) ==
    IF ~HasSlash(s) THEN <<s>>
    ELSE <<SubSeq(s, 1, FirstSlash(s) - 1)>> \o Split(SubSeq(s, FirstSlash(s) + 1, Len(s)))

RECURSIVE Join(_)
Join(parts) ==
    IF parts = <<>> THEN <<>>
    ELSE IF Len(parts) = 1 THEN parts[1]
    ELSE parts[1] \o Slash \o Join(Tail(parts))

Pop(parts) == SubSeq(parts, 1, Len(parts) - 1)

StartsAt(s, t, i) == i + Len(t) - 1 <= Len(s) /\ SubSeq(s, i, i + Len(t) - 1) = t

Includes(s, t) == \E i \in 1..(Len(s) + 1) : StartsAt(s, t, i)

ReplaceFirst(s, t) ==
    IF ~Includes(s, t) THEN s
    ELSE LET i == CHOOSE k \in 1..(Len(s) + 1) :
                     StartsAt(s, t, k) /\ \A j \in 1..(k - 1) : ~StartsAt(s, t, j)
         IN SubSeq(s, 1, i - 1) \o SubSeq(s, i + Len(t), Len(s))

Substring1(s) == IF Len(s) = 0 THEN s ELSE Tail(s)

RECURSIVE StripAllTrailingSlashes(_)
StripAllTrailingSlashes(s) ==
    IF Len(s) > 0 /\ s[Len(s)] = "/" THEN StripAllTrailingSlashes(SubSeq(s, 1, Len(s) - 1))
    ELSE s

Basename(s) ==
    LET t == StripAllTrailingSlashes(s)
        parts == Split(t)
    IN parts[Len(parts)]

Segments(s) == SelectSeq(Split(s), LAMBDA part : part # <<>>)

(***************************************************************************)
(* Path utilities                                                          *)
(***************************************************************************)
normalizePathSwapped(path) ==
    IF path = Empty \/ path = Slash THEN Slash
    ELSE LET r == CollapseSlashes(StripTrailingSlash(path))
         IN IF r = Empty THEN Slash ELSE r

normalizePath(path) ==
    IF path = Empty \/ path = Slash THEN Slash
    ELSE LET r == StripTrailingSlash(CollapseSlashes(path))
         IN IF r = Empty THEN Slash ELSE r

getParentPathNoRoot(path) ==
    IF path = Slash THEN Empty
    ELSE Join(Pop(Split(path)))

getParentPath(path) ==
    IF path = Slash THEN Empty
    ELSE LET r == Join(Pop(Split(path)))
         IN IF r = Empty THEN Slash ELSE r

(***************************************************************************)
(* Ordering helpers (directory order, store sort order)                    *)
(***************************************************************************)
CharRank(c) == CASE c = "/" -> 0 [] c = "A" -> 1 [] c = "B" -> 2 [] c = "a" -> 3 [] c = "b" -> 4 [] OTHER -> 5

RECURSIVE LexLess(_, _)
LexLess(s, t) ==
    IF t = <<>> THEN FALSE
    ELSE IF s = <<>> THEN TRUE
    ELSE IF s[1] # t[1] THEN CharRank(s[1]) < CharRank(t[1])
    ELSE LexLess(Tail(s), Tail(t))

RECURSIVE SortStrings(_)
SortStrings(S) ==
    IF S = {} THEN <<>>
    ELSE LET m == CHOOSE x \in S : \A y \in S \ {x} : LexLess(x, y)
         IN <<m>> \o SortStrings(S \ {m})

EntryBefore(e1, e2, foldersFirst) ==
    IF foldersFirst /\ e1.isFolder # e2.isFolder THEN e1.isFolder
    ELSE IF foldersFirst /\ e1.name # e2.name THEN LexLess(e1.name, e2.name)
    ELSE LexLess(e1.path, e2.path)

RECURSIVE SortEntries(_, _)
SortEntries(S, foldersFirst) ==
    IF S = {} THEN <<>>
    ELSE LET m == CHOOSE x \in S : \A y \in S \ {x} : EntryBefore(x, y, foldersFirst)
         IN <<m>> \o SortEntries(S \ {m}, foldersFirst)

Take(s, n) == IF Len(s) <= n THEN s ELSE SubSeq(s, 1, n)

ToLowerChar(c) == CASE c = "A" -> "a" [] c = "B" -> "b" [] OTHER -> c

ToLower(s) == [i \in 1..Len(s) |-> ToLowerChar(s[i])]

(***************************************************************************)
(* Entries and results                                                     *)
(***************************************************************************)
Entry(name, path, isFolder, size, content, parentPath) ==
    [name |-> name, path |-> path, isFolder |-> isFolder, size |-> size,
     content |-> content, parentPath |-> parentPath]

Null == Entry(Undefined, Undefined, FALSE, 0, "", Undefined)

Ok(v) == [ok |-> TRUE, err |-> "", val |-> v]

Err(msg) == [ok |-> FALSE, err |-> msg, val |-> <<>>]

SameResult(r1, r2) ==
    /\ r1.ok = r2.ok
    /\ r1.ok => r1.val = r2.val
    /\ ~r1.ok => r1.err = r2.err

(***************************************************************************)
(* The on-disk tree under DATA_DIR                                         *)
(***************************************************************************)
DirSize == 4

DataDirName == <<"d">>

NameA == <<"a">>

NameB == <<"b">>

NameAB == <<"a", "b">>

FsTree ==
    { [segs |-> <<NameA>>, isFolder |-> TRUE, size |-> DirSize, content |-> ""],
      [segs |-> <<NameA, NameA>>, isFolder |-> TRUE, size |-> DirSize, content |-> ""],
      [segs |-> <<NameA, NameA, NameB>>, isFolder |-> FALSE, size |-> 3, content |-> "disk-aab"],
      [segs |-> <<NameA, NameB>>, isFolder |-> FALSE, size |-> 2, content |-> "disk-ab"],
      [segs |-> <<NameAB>>, isFolder |-> FALSE, size |-> 1, content |-> "disk-ab-top"] }

FsRoot == [segs |-> <<>>, isFolder |-> TRUE, size |-> DirSize, content |-> ""]

Dot == <<".">>

Up == <<".", ".">>

OutsideTree ==
    { [segs |-> <<Up>>, isFolder |-> TRUE, size |-> DirSize, content |-> ""],
      [segs |-> <<Up, DataDirName>>, isFolder |-> TRUE, size |-> DirSize, content |-> ""],
      [segs |-> <<Up, NameB>>, isFolder |-> FALSE, size |-> 6, content |-> "outside-b"] }

FsAll == FsTree \cup OutsideTree

existsSync(segs) == segs = <<>> \/ \E e \in disk : e.segs = segs

statSync(segs) == IF segs = <<>> THEN FsRoot ELSE CHOOSE e \in disk : e.segs = segs

readdirSync(segs) ==
    SortStrings({e.segs[Len(e.segs)] : e \in {x \in disk : Len(x.segs) = Len(segs) + 1
                                                     /\ SubSeq(x.segs, 1, Len(segs)) = segs
                                                     /\ x.segs[Len(x.segs)] # Up}})

RECURSIVE ResolveDots(_, _)
ResolveDots(segs, acc) ==
    IF segs = <<>> THEN acc
    ELSE IF Head(segs) = Dot THEN ResolveDots(Tail(segs), acc)
    ELSE IF Head(segs) = Up
    THEN ResolveDots(Tail(segs), IF acc = <<>> \/ acc = <<Up>> THEN <<Up>> ELSE Pop(acc))
    ELSE IF acc = <<Up>> /\ Head(segs) = DataDirName THEN ResolveDots(Tail(segs), <<>>)
    ELSE ResolveDots(Tail(segs), Append(acc, Head(segs)))

JoinDataDir(path) == IF path = Slash THEN <<>> ELSE ResolveDots(Segments(path), <<>>)

FsBasename(segs) == IF segs = <<>> THEN DataDirName ELSE segs[Len(segs)]

getDirectoryContentsFromFileSystem(path) ==
    LET fullPath == JoinDataDir(path)
    IN IF ~existsSync(fullPath) THEN <<>>
       ELSE IF ~statSync(fullPath).isFolder THEN <<>>
       ELSE LET items == readdirSync(fullPath)
            IN [i \in 1..Len(items) |->
                  LET itemStats == statSync(Append(fullPath, items[i]))
                  IN Entry(items[i],
                           IF path = Slash THEN Slash \o items[i] ELSE path \o Slash \o items[i],
                           itemStats.isFolder, itemStats.size, itemStats.content, path)]

RECURSIVE searchInDirectory(_, _, _, _, _)
RECURSIVE searchItems(_, _, _, _, _, _)
searchItems(dirPath, currentPath, items, results, query, limit) ==
    IF items = <<>> \/ Len(results) >= limit THEN results
    ELSE LET item == Head(items)
             itemPath == Append(dirPath, item)
             itemStats == statSync(itemPath)
             relativePath == IF currentPath = Empty THEN Slash \o item
                             ELSE currentPath \o Slash \o item
             pushed == IF Includes(ToLower(item), ToLower(query))
                       THEN Append(results,
                                   Entry(item, relativePath, itemStats.isFolder, itemStats.size,
                                         itemStats.content,
                                         IF currentPath = Empty THEN Slash ELSE currentPath))
                       ELSE results
             deeper == IF itemStats.isFolder
                       THEN searchInDirectory(itemPath, relativePath, pushed, query, limit)
                       ELSE pushed
         IN searchItems(dirPath, currentPath, Tail(items), deeper, query, limit)

searchInDirectory(dirPath, currentPath, results, query, limit) ==
    IF Len(results) >= limit THEN results
    ELSE searchItems(dirPath, currentPath, readdirSync(dirPath), results, query, limit)

searchFilesInFileSystemShallow(query, limit) ==
    Take(SelectSeq(getDirectoryContentsFromFileSystem(Slash),
                   LAMBDA e : Includes(ToLower(e.name), ToLower(query))), limit)

searchFilesInFileSystem(query, limit) ==
    Take(searchInDirectory(<<>>, Empty, <<>>, query, limit), limit)

(***************************************************************************)
(* The document store (collection "files")                                 *)
(***************************************************************************)
SegPath(segs) == Slash \o Join(segs)

Dirname(path) ==
    LET r == Join(Pop(Split(path))) IN IF r = Empty THEN Slash ELSE r

MigratedRecord(e) ==
    Entry(e.segs[Len(e.segs)], SegPath(e.segs), e.isFolder,
          IF e.isFolder THEN 0 ELSE e.size, e.content, Dirname(SegPath(e.segs)))

StoreEmpty == {}

StoreMigrated ==
    {Entry(<<"r", "o", "o", "t">>, Slash, TRUE, 0, "", Undefined)}
        \cup {MigratedRecord(e) : e \in FsTree}

StoreDiverged ==
    {r \in StoreMigrated : r.path \notin {SegPath(<<NameA, NameB>>), SegPath(<<NameAB>>)}}
        \cup { Entry(NameB, SegPath(<<NameA, NameB>>), FALSE, 5, "store-ab", SegPath(<<NameA>>)),
               Entry(NameB, SegPath(<<NameB>>), FALSE, 7, "store-b", Slash),
               Entry(NameAB, SegPath(<<NameAB>>), TRUE, 0, "", Slash) }

StoreConfigs == {StoreEmpty, StoreMigrated, StoreDiverged}

findOne(path) ==
    IF \E r \in store : r.path = path THEN CHOOSE r \in store : r.path = path ELSE Null

findByParent(parentPath) == SortEntries({r \in store : r.parentPath = parentPath}, FALSE)

findByParentSorted(parentPath) == SortEntries({r \in store : r.parentPath = parentPath}, TRUE)

textSearch(query, limit) ==
    LET hits == SortEntries({r \in store : ToLower(r.name) = ToLower(query)}, FALSE)
    IN IF limit = 0 THEN hits ELSE Take(hits, limit)

(***************************************************************************)
(* Service functions.  conn is mongoose.connection.readyState === 1 at     *)
(* the time of the check, queryOk tells whether the store query resolves.  *)
(***************************************************************************)
getDirectoryContentsTrustEmpty(path, conn, queryOk) ==
    LET normalizedPath == normalizePath(path)
        contents == findByParentSorted(normalizedPath)
    IN IF conn /\ queryOk THEN Ok(contents)
       ELSE Ok(getDirectoryContentsFromFileSystem(normalizedPath))

getDirectoryContents(path, conn, queryOk) ==
    LET normalizedPath == normalizePath(path)
        contents == findByParentSorted(normalizedPath)
    IN IF conn /\ queryOk /\ Len(contents) > 0 THEN Ok(contents)
       ELSE Ok(getDirectoryContentsFromFileSystem(normalizedPath))

readFromFileSystem(normalizedPath) ==
    LET fullPath == JoinDataDir(normalizedPath)
    IN IF ~existsSync(fullPath) THEN Err("File not found")
       ELSE IF statSync(fullPath).isFolder THEN Err("Cannot read content of a directory")
       ELSE Ok(statSync(fullPath).content)

getFileContent(path, conn, queryOk) ==
    LET normalizedPath == normalizePath(path)
        file == findOne(normalizedPath)
        inner == IF conn /\ queryOk /\ file # Null /\ ~file.isFolder THEN Ok(file.content)
                 ELSE readFromFileSystem(normalizedPath)
    IN IF inner.ok THEN inner ELSE Err("Failed to get file content")

infoFromFileSystem(normalizedPath) ==
    LET fullPath == JoinDataDir(normalizedPath)
    IN IF ~existsSync(fullPath) THEN Null
       ELSE LET stats == statSync(fullPath)
            IN Entry(FsBasename(fullPath), normalizedPath, stats.isFolder, stats.size,
                     stats.content, getParentPath(normalizedPath))

getFileInfoThrowsOnAbsent(path, conn, queryOk) ==
    LET normalizedPath == normalizePath(path)
        file == findOne(normalizedPath)
    IN IF conn /\ queryOk /\ file # Null THEN Ok(file)
       ELSE IF ~existsSync(JoinDataDir(normalizedPath))
       THEN Err("Failed to get file information")
       ELSE Ok(infoFromFileSystem(normalizedPath))

getFileInfoSticky(path, conn, queryOk) ==
    LET normalizedPath == normalizePath(path)
        file == findOne(normalizedPath)
    IN IF conn /\ ~storeFailed /\ queryOk /\ file # Null THEN Ok(file)
       ELSE Ok(infoFromFileSystem(normalizedPath))

getFileInfo(path, conn, queryOk) ==
    LET normalizedPath == normalizePath(path)
        file == findOne(normalizedPath)
    IN IF conn /\ queryOk /\ file # Null THEN Ok(file)
       ELSE Ok(infoFromFileSystem(normalizedPath))

searchFilesTrustEmpty(query, limit, conn, queryOk) ==
    LET results == textSearch(query, limit)
    IN IF conn /\ queryOk THEN Ok(results)
       ELSE Ok(searchFilesInFileSystem(query, limit))

searchFiles(query, limit, conn, queryOk) ==
    LET results == textSearch(query, limit)
    IN IF conn /\ queryOk /\ Len(results) > 0 THEN Ok(results)
       ELSE Ok(searchFilesInFileSystem(query, limit))

RECURSIVE SumSizes(_)
SumSizes(items) ==
    IF items = <<>> THEN 0
    ELSE (IF Head(items).isFolder THEN 0 ELSE Head(items).size) + SumSizes(Tail(items))

AggregateWithFolderSizes(contents) ==
    [totalFiles |-> Cardinality({i \in 1..Len(contents) : ~contents[i].isFolder}),
     totalSize |-> SumSizes(contents)
                     + DirSize * Cardinality({i \in 1..Len(contents) : contents[i].isFolder}),
     totalDirectories |-> Cardinality({i \in 1..Len(contents) : contents[i].isFolder})]

Aggregate(contents) ==
    [totalFiles |-> Cardinality({i \in 1..Len(contents) : ~contents[i].isFolder}),
     totalSize |-> SumSizes(contents),
     totalDirectories |-> Cardinality({i \in 1..Len(contents) : contents[i].isFolder})]

getFileStatsNoFallback(path, conn, queryOk) ==
    LET normalizedPath == normalizePath(path)
    IN IF conn
       THEN IF queryOk THEN Ok(Aggregate(findByParent(normalizedPath)))
            ELSE Err("Failed to get file statistics")
       ELSE Ok(Aggregate(getDirectoryContentsFromFileSystem(normalizedPath)))

getFileStats(path, conn, queryOk) ==
    LET normalizedPath == normalizePath(path)
    IN IF conn /\ queryOk THEN Ok(Aggregate(findByParent(normalizedPath)))
       ELSE Ok(Aggregate(getDirectoryContentsFromFileSystem(normalizedPath)))

(***************************************************************************)
(* Zip archive builder                                                     *)
(***************************************************************************)
NoArchive ==
    [created |-> FALSE, rootPath |-> Empty, finalized |-> FALSE, ended |-> FALSE,
     streamError |-> FALSE, entries |-> <<>>, requested |-> <<>>, rejected |-> 0,
     failedDirs |-> {}]

Frame(dirPath) == [dirPath |-> dirPath, fetched |-> FALSE, items |-> <<>>]

relativePathOf(itemPath, rootPath) == Substring1(ReplaceFirst(itemPath, rootPath))

createZipArchive(path) ==
    [archive |-> [NoArchive EXCEPT !.created = TRUE, !.rootPath = path, !.finalized = TRUE],
     walk |-> <<Frame(path)>>]

archiveAppend(a, item) ==
    LET name == relativePathOf(item.path, a.rootPath)
        req == [a EXCEPT !.requested = Append(@, [path |-> item.path, name |-> name])]
    IN IF a.finalized THEN [req EXCEPT !.rejected = @ + 1]
       ELSE [req EXCEPT !.entries = Append(@, [path |-> item.path, name |-> name])]

getDownloadStream(path, queryOk) ==
    LET normalizedPath == normalizePath(path)
        file == findOne(normalizedPath)
    IN IF ~queryOk THEN Err("Failed to get download stream")
       ELSE IF file = Null THEN Err("Failed to get download stream")
       ELSE IF file.isFolder THEN Ok("zip")
       ELSE Ok(file.content)

(***************************************************************************)
(* State                                                                   *)
(***************************************************************************)
NoCall ==
    [op |-> "none", path |-> Empty, norm |-> Empty, query |-> Empty, limit |-> 0,
     conn |-> FALSE, queryOk |-> FALSE, result |-> Ok(<<>>)]

Call(op, path, query, limit, conn, queryOk, result) ==
    [op |-> op, path |-> path, norm |-> normalizePath(path), query |-> query,
     limit |-> limit, conn |-> conn, queryOk |-> queryOk, result |-> result]

NoResponse ==
    [status |-> 0, contentType |-> "", disposition |-> "", filename |-> Empty,
     error |-> "", info |-> Null, infoConn |-> FALSE, infoOk |-> FALSE,
     success |-> FALSE, body |-> "", items |-> <<>>, mongodbConnected |-> FALSE]

NotStarted ==
    [pc |-> "off", storeReachable |-> FALSE, fabricated |-> FALSE, port |-> 0,
     attemptsLeft |-> 0, tried |-> <<>>, otherError |-> FALSE, exitCode |-> 0]

NoMigration == [pending |-> <<>>, failed |-> 0]

Outcomes(conn) == IF conn THEN {"ok", "error", "disconnect"} ELSE {"none"}

Init ==
    /\ connected \in BOOLEAN
    /\ store \in StoreConfigs
    /\ pc = "idle"
    /\ last = NoCall
    /\ resp = NoResponse
    /\ archive = NoArchive
    /\ walk = <<>>
    /\ failures = {}
    /\ storeFailed = FALSE
    /\ sent = <<>>
    /\ disk = FsAll
    /\ migration = NoMigration
    /\ boot = NotStarted
    /\ portsInUse = {}
    /\ fixture = {}
    /\ fabStore = {}
    /\ fabPc = "off"
    /\ fabIndex = 0
    /\ fabResp = [op |-> "", path |-> <<>>, status |-> 0, items |-> {}, body |-> ""]

Finish(out) ==
    /\ connected' = (connected /\ out # "disconnect")
    /\ pc' = "done"
    /\ storeFailed' = (storeFailed \/ out # "ok")
    /\ UNCHANGED <<store, resp, archive, walk, sent>>

FailureCause(path) ==
    IF existsSync(JoinDataDir(normalizePath(path))) THEN "NotAFile" ELSE "NotFound"

ListCall ==
    /\ UNCHANGED nonServerVars
    /\ pc = "idle"
    /\ \E path \in Paths, out \in Outcomes(connected) :
          /\ last' = Call("getDirectoryContents", path, Empty, 0, connected, out = "ok",
                          getDirectoryContents(path, connected, out = "ok"))
          /\ Finish(out)
          /\ UNCHANGED failures

ReadCall ==
    /\ UNCHANGED nonServerVars
    /\ pc = "idle"
    /\ \E path \in Paths, out \in Outcomes(connected) :
          /\ last' = Call("getFileContent", path, Empty, 0, connected, out = "ok",
                          getFileContent(path, connected, out = "ok"))
          /\ Finish(out)
          /\ failures' = IF getFileContent(path, connected, out = "ok").ok THEN failures
                         ELSE failures \cup {[cause |-> FailureCause(path),
                                              err |-> getFileContent(path, connected, out = "ok").err]}

InfoCall ==
    /\ UNCHANGED nonServerVars
    /\ pc = "idle"
    /\ \E path \in Paths, out \in Outcomes(connected) :
          /\ last' = Call("getFileInfo", path, Empty, 0, connected, out = "ok",
                          getFileInfo(path, connected, out = "ok"))
          /\ Finish(out)
          /\ UNCHANGED failures

SearchCall ==
    /\ UNCHANGED nonServerVars
    /\ pc = "idle"
    /\ \E query \in Queries, limit \in Limits, out \in Outcomes(connected) :
          /\ last' = Call("searchFiles", Empty, query, limit, connected, out = "ok",
                          searchFiles(query, limit, connected, out = "ok"))
          /\ Finish(out)
          /\ UNCHANGED failures

StatsCall ==
    /\ UNCHANGED nonServerVars
    /\ pc = "idle"
    /\ \E path \in Paths, out \in Outcomes(connected) :
          /\ last' = Call("getFileStats", path, Empty, 0, connected, out = "ok",
                          getFileStats(path, connected, out = "ok"))
          /\ Finish(out)
          /\ UNCHANGED failures

Return ==
    /\ UNCHANGED nonServerVars
    /\ pc = "done"
    /\ pc' = "idle"
    /\ last' = NoCall
    /\ resp' = NoResponse
    /\ archive' = NoArchive
    /\ sent' = <<>>
    /\ UNCHANGED <<connected, store, walk, failures, storeFailed>>

Connect ==
    /\ UNCHANGED nonServerVars
    /\ ~connected
    /\ connected' = TRUE
    /\ UNCHANGED <<store, pc, last, resp, archive, walk, failures, storeFailed, sent>>

Disconnect ==
    /\ UNCHANGED nonServerVars
    /\ connected
    /\ connected' = FALSE
    /\ UNCHANGED <<store, pc, last, resp, archive, walk, failures, storeFailed, sent>>

(***************************************************************************)
(* GET /api/download                                                       *)
(***************************************************************************)
ZipSuffix == <<".", "z", "i", "p">>

Response(status, contentType, disposition, filename, error, info, conn, queryOk) ==
    [status |-> status, contentType |-> contentType, disposition |-> disposition,
     filename |-> filename, error |-> error, info |-> info, infoConn |-> conn,
     infoOk |-> queryOk, success |-> (error = ""), body |-> "", items |-> <<>>,
     mongodbConnected |-> FALSE]

downloadItem(path, conn1, ok1, conn2, ok2) ==
    LET file == getFileInfo(path, conn1, ok1).val
    IN IF file = Null
       THEN [resp |-> Response(404, "application/json", "", Empty, "Item not found", file, conn1, ok1),
             zip |-> FALSE]
       ELSE IF file.isFolder
       THEN IF getDownloadStream(path, conn2 /\ ok2).ok
            THEN [resp |-> Response(200, "application/zip", "attachment",
                                    Basename(path) \o ZipSuffix, "", file, conn1, ok1),
                  zip |-> TRUE]
            ELSE [resp |-> Response(500, "application/json", "", Empty,
                                    "Failed to download item", file, conn1, ok1),
                  zip |-> FALSE]
       ELSE IF getFileContent(path, conn2, ok2).ok
            THEN [resp |-> Response(200, "text/plain", "attachment", Basename(path), "",
                                    file, conn1, ok1),
                  zip |-> FALSE]
            ELSE [resp |-> Response(500, "application/json", "", Empty,
                                    "Failed to download item", file, conn1, ok1),
                  zip |-> FALSE]

Completed(sends) == [sends |-> sends, thrown |-> FALSE]

Thrown(sends) == [sends |-> sends, thrown |-> TRUE]

TryCatch(body, errorStatus) ==
    IF body.thrown THEN Append(body.sends, errorStatus) ELSE body.sends

downloadItemSends(path, conn1, ok1, conn2, ok2) ==
    LET file == getFileInfo(path, conn1, ok1)
        body == IF ~file.ok THEN Thrown(<<>>)
                ELSE IF file.val = Null THEN Completed(<<404>>)
                ELSE IF file.val.isFolder
                THEN IF getDownloadStream(path, conn2 /\ ok2).ok
                     THEN Completed(<<200>>) ELSE Thrown(<<>>)
                ELSE IF getFileContent(path, conn2, ok2).ok
                     THEN Completed(<<200>>) ELSE Thrown(<<>>)
    IN TryCatch(body, 500)

DownloadCall ==
    /\ UNCHANGED nonServerVars
    /\ pc = "idle"
    /\ \E path \in Paths, out1 \in Outcomes(connected), conn2 \in BOOLEAN :
          \E out2 \in Outcomes(conn2) :
             LET r == downloadItem(path, connected, out1 = "ok", conn2, out2 = "ok")
                 started == createZipArchive(normalizePath(path))
             IN /\ (r.resp.status = 404) =>
                       (conn2 = (connected /\ out1 # "disconnect") /\ out2 \in {"ok", "none"})
                /\ (out1 = "disconnect") => ~conn2
                /\ resp' = r.resp
                /\ sent' = downloadItemSends(path, connected, out1 = "ok", conn2, out2 = "ok")
                /\ last' = Call("downloadItem", path, Empty, 0, connected, out1 = "ok", Ok(<<>>))
                /\ archive' = IF r.zip THEN started.archive ELSE NoArchive
                /\ walk' = IF r.zip THEN started.walk ELSE <<>>
                /\ pc' = IF r.zip THEN "streaming" ELSE "done"
                /\ connected' = (conn2 /\ out2 # "disconnect")
                /\ storeFailed' = (storeFailed \/ out1 # "ok"
                                      \/ (r.resp.status # 404 /\ out2 # "ok"))
                /\ UNCHANGED <<store, failures>>

WalkFind ==
    /\ UNCHANGED nonServerVars
    /\ pc = "streaming"
    /\ walk # <<>>
    /\ ~walk[Len(walk)].fetched
    /\ \E queryOk \in (IF connected THEN BOOLEAN ELSE {FALSE}) :
          IF queryOk
          THEN /\ walk' = [walk EXCEPT ![Len(walk)] =
                              [@ EXCEPT !.fetched = TRUE, !.items = findByParent(walk[Len(walk)].dirPath)]]
               /\ UNCHANGED archive
          ELSE /\ walk' = Pop(walk)
               /\ archive' = [archive EXCEPT !.failedDirs = @ \cup {walk[Len(walk)].dirPath}]
    /\ UNCHANGED <<connected, store, pc, last, resp, failures, storeFailed, sent>>

WalkItem ==
    /\ UNCHANGED nonServerVars
    /\ pc = "streaming"
    /\ walk # <<>>
    /\ walk[Len(walk)].fetched
    /\ walk[Len(walk)].items # <<>>
    /\ LET top == walk[Len(walk)]
           item == Head(top.items)
           rest == [walk EXCEPT ![Len(walk)] = [@ EXCEPT !.items = Tail(@)]]
       IN IF item.isFolder
          THEN /\ walk' = Append(rest, Frame(item.path))
               /\ UNCHANGED archive
          ELSE /\ walk' = rest
               /\ archive' = archiveAppend(archive, item)
    /\ UNCHANGED <<connected, store, pc, last, resp, failures, storeFailed, sent>>

WalkReturn ==
    /\ UNCHANGED nonServerVars
    /\ pc = "streaming"
    /\ walk # <<>>
    /\ walk[Len(walk)].fetched
    /\ walk[Len(walk)].items = <<>>
    /\ walk' = Pop(walk)
    /\ UNCHANGED <<connected, store, pc, last, resp, archive, failures, storeFailed, sent>>

ArchiveEnd ==
    /\ UNCHANGED nonServerVars
    /\ pc = "streaming"
    /\ archive.finalized
    /\ ~archive.ended
    /\ archive' = [archive EXCEPT !.ended = TRUE]
    /\ UNCHANGED <<connected, store, pc, last, resp, walk, failures, storeFailed, sent>>

StreamClose ==
    /\ UNCHANGED nonServerVars
    /\ pc = "streaming"
    /\ walk = <<>>
    /\ archive.ended
    /\ pc' = "done"
    /\ UNCHANGED <<connected, store, last, resp, archive, walk, failures, storeFailed, sent>>

(***************************************************************************)
(* GET /api/file, GET /api/info, GET /api/list, GET /health                *)
(***************************************************************************)
getFileContentHandlerNoFolderCheck(path, conn1, ok1, conn2, ok2) ==
    LET file == getFileInfo(path, conn1, ok1).val
        content == getFileContent(path, conn2, ok2)
    IN IF file = Null
       THEN Response(404, "application/json", "", Empty, "File not found", file, conn1, ok1)
       ELSE IF content.ok
       THEN [Response(200, "text/plain", "", Empty, "", file, conn1, ok1)
                EXCEPT !.body = content.val]
       ELSE Response(500, "application/json", "", Empty, "Failed to read file", file, conn1, ok1)

getFileContentHandler(path, conn1, ok1, conn2, ok2) ==
    LET file == getFileInfo(path, conn1, ok1).val
        content == getFileContent(path, conn2, ok2)
    IN IF file = Null
       THEN Response(404, "application/json", "", Empty, "File not found", file, conn1, ok1)
       ELSE IF file.isFolder
       THEN Response(400, "application/json", "", Empty, "Path is not a file", file, conn1, ok1)
       ELSE IF content.ok
       THEN [Response(200, "text/plain", "", Empty, "", file, conn1, ok1)
                EXCEPT !.body = content.val]
       ELSE Response(500, "application/json", "", Empty, "Failed to read file", file, conn1, ok1)

getFileInfoHandlerThrows(path, conn, queryOk) ==
    LET file == getFileInfo(path, conn, queryOk).val
    IN IF file = Null
       THEN Response(500, "application/json", "", Empty, "Failed to get file info", file, conn,
                     queryOk)
       ELSE Response(200, "application/json", "", Empty, "", file, conn, queryOk)

getFileInfoHandler(path, conn, queryOk) ==
    LET file == getFileInfo(path, conn, queryOk).val
    IN IF file = Null
       THEN Response(404, "application/json", "", Empty, "File not found", file, conn, queryOk)
       ELSE Response(200, "application/json", "", Empty, "", file, conn, queryOk)

listDirectory(path, conn, queryOk) ==
    LET items == getDirectoryContents(path, conn, queryOk)
    IN IF items.ok
       THEN [Response(200, "application/json", "", Empty, "", Null, conn, queryOk)
                EXCEPT !.items = items.val]
       ELSE Response(500, "application/json", "", Empty, "Failed to list directory", Null,
                     conn, queryOk)

getFileContentHandlerSendsNoReturn(path, conn1, ok1, conn2, ok2) ==
    LET file == getFileInfo(path, conn1, ok1)
        body == IF ~file.ok THEN Thrown(<<>>)
                ELSE IF file.val = Null THEN Thrown(<<404>>)
                ELSE IF file.val.isFolder THEN Completed(<<400>>)
                ELSE IF getFileContent(path, conn2, ok2).ok
                     THEN Completed(<<200>>) ELSE Thrown(<<>>)
    IN TryCatch(body, 500)

getFileContentHandlerSends(path, conn1, ok1, conn2, ok2) ==
    LET file == getFileInfo(path, conn1, ok1)
        body == IF ~file.ok THEN Thrown(<<>>)
                ELSE IF file.val = Null THEN Completed(<<404>>)
                ELSE IF file.val.isFolder THEN Completed(<<400>>)
                ELSE IF getFileContent(path, conn2, ok2).ok
                     THEN Completed(<<200>>) ELSE Thrown(<<>>)
    IN TryCatch(body, 500)

getFileInfoHandlerSends(path, conn, queryOk) ==
    LET file == getFileInfo(path, conn, queryOk)
        body == IF ~file.ok THEN Thrown(<<>>)
                ELSE IF file.val = Null THEN Completed(<<404>>)
                ELSE Completed(<<200>>)
    IN TryCatch(body, 500)

listDirectorySends(path, conn, queryOk) ==
    LET items == getDirectoryContents(path, conn, queryOk)
        body == IF items.ok THEN Completed(<<200>>) ELSE Thrown(<<>>)
    IN TryCatch(body, 500)

searchHandler(query, limit, conn, queryOk) ==
    LET results == searchFiles(query, limit, conn, queryOk)
    IN IF results.ok
       THEN [Response(200, "application/json", "", Empty, "", Null, conn, queryOk)
                EXCEPT !.items = results.val]
       ELSE Response(500, "application/json", "", Empty, "Failed to search files", Null,
                     conn, queryOk)

searchHandlerSends(query, limit, conn, queryOk) ==
    LET results == searchFiles(query, limit, conn, queryOk)
        body == IF results.ok THEN Completed(<<200>>) ELSE Thrown(<<>>)
    IN TryCatch(body, 500)

statsHandler(path, conn, queryOk) ==
    LET stats == getFileStats(path, conn, queryOk)
    IN IF stats.ok
       THEN [Response(200, "application/json", "", Empty, "", Null, conn, queryOk)
                EXCEPT !.info = stats.val]
       ELSE Response(500, "application/json", "", Empty, "Failed to get file statistics",
                     Null, conn, queryOk)

statsHandlerSends(path, conn, queryOk) ==
    LET stats == getFileStats(path, conn, queryOk)
        body == IF stats.ok THEN Completed(<<200>>) ELSE Thrown(<<>>)
    IN TryCatch(body, 500)

healthCheck(conn) ==
    [Response(200, "application/json", "", Empty, "", Null, conn, FALSE)
        EXCEPT !.mongodbConnected = TRUE]

FileRequest ==
    /\ UNCHANGED nonServerVars
    /\ pc = "idle"
    /\ \E path \in Paths, out1 \in Outcomes(connected), conn2 \in BOOLEAN :
          \E out2 \in Outcomes(conn2) :
             LET r == getFileContentHandler(path, connected, out1 = "ok", conn2, out2 = "ok")
             IN /\ (r.status \in {404, 400}) =>
                       (conn2 = (connected /\ out1 # "disconnect") /\ out2 \in {"ok", "none"})
                /\ (out1 = "disconnect") => ~conn2
                /\ resp' = r
                /\ sent' = getFileContentHandlerSends(path, connected, out1 = "ok", conn2,
                                                      out2 = "ok")
                /\ last' = Call("getFileContentHandler", path, Empty, 0, connected, out1 = "ok",
                                Ok(<<>>))
                /\ pc' = "done"
                /\ connected' = (conn2 /\ out2 # "disconnect")
                /\ storeFailed' = (storeFailed \/ out1 # "ok"
                                      \/ (r.status \notin {404, 400} /\ out2 # "ok"))
                /\ UNCHANGED <<store, archive, walk, failures>>

InfoRequest ==
    /\ UNCHANGED nonServerVars
    /\ pc = "idle"
    /\ \E path \in Paths, out \in Outcomes(connected) :
          /\ resp' = getFileInfoHandler(path, connected, out = "ok")
          /\ sent' = getFileInfoHandlerSends(path, connected, out = "ok")
          /\ last' = Call("getFileInfoHandler", path, Empty, 0, connected, out = "ok", Ok(<<>>))
          /\ pc' = "done"
          /\ connected' = (connected /\ out # "disconnect")
          /\ storeFailed' = (storeFailed \/ out # "ok")
          /\ UNCHANGED <<store, archive, walk, failures>>

ListRequest ==
    /\ UNCHANGED nonServerVars
    /\ pc = "idle"
    /\ \E path \in Paths, out \in Outcomes(connected) :
          /\ resp' = listDirectory(path, connected, out = "ok")
          /\ sent' = listDirectorySends(path, connected, out = "ok")
          /\ last' = Call("listDirectory", path, Empty, 0, connected, out = "ok", Ok(<<>>))
          /\ pc' = "done"
          /\ connected' = (connected /\ out # "disconnect")
          /\ storeFailed' = (storeFailed \/ out # "ok")
          /\ UNCHANGED <<store, archive, walk, failures>>

HealthRequest ==
    /\ UNCHANGED nonServerVars
    /\ pc = "idle"
    /\ resp' = healthCheck(connected)
    /\ last' = Call("health", Empty, Empty, 0, connected, FALSE, Ok(<<>>))
    /\ pc' = "done"
    /\ sent' = <<200>>
    /\ UNCHANGED <<connected, store, archive, walk, failures, storeFailed>>

SearchRequest ==
    /\ UNCHANGED nonServerVars
    /\ pc = "idle"
    /\ \E query \in Queries, limit \in Limits, out \in Outcomes(connected) :
          /\ resp' = searchHandler(query, limit, connected, out = "ok")
          /\ sent' = searchHandlerSends(query, limit, connected, out = "ok")
          /\ last' = Call("searchHandler", Empty, query, limit, connected, out = "ok", Ok(<<>>))
          /\ pc' = "done"
          /\ connected' = (connected /\ out # "disconnect")
          /\ storeFailed' = (storeFailed \/ out # "ok")
          /\ UNCHANGED <<store, archive, walk, failures>>

StatsRequest ==
    /\ UNCHANGED nonServerVars
    /\ pc = "idle"
    /\ \E path \in Paths, out \in Outcomes(connected) :
          /\ resp' = statsHandler(path, connected, out = "ok")
          /\ sent' = statsHandlerSends(path, connected, out = "ok")
          /\ last' = Call("statsHandler", path, Empty, 0, connected, out = "ok", Ok(<<>>))
          /\ pc' = "done"
          /\ connected' = (connected /\ out # "disconnect")
          /\ storeFailed' = (storeFailed \/ out # "ok")
          /\ UNCHANGED <<store, archive, walk, failures>>

InvalidMessage(op) ==
    IF op = "searchHandler" THEN "Invalid search query" ELSE "Invalid path parameter"

InvalidRequest ==
    /\ UNCHANGED nonServerVars
    /\ pc = "idle"
    /\ \E op \in {"listDirectory", "getFileContentHandler", "downloadItem",
                   "getFileInfoHandler", "searchHandler", "statsHandler"} :
          /\ resp' = Response(400, "application/json", "", Empty, InvalidMessage(op), Null,
                              connected, FALSE)
          /\ last' = Call(op, Empty, Empty, 0, connected, FALSE, Ok(<<>>))
    /\ sent' = TryCatch(Completed(<<400>>), 500)
    /\ pc' = "done"
    /\ UNCHANGED <<connected, store, archive, walk, failures, storeFailed>>

Next ==
    \/ ListCall
    \/ ReadCall
    \/ InfoCall
    \/ SearchCall
    \/ StatsCall
    \/ DownloadCall
    \/ FileRequest
    \/ InfoRequest
    \/ ListRequest
    \/ HealthRequest
    \/ SearchRequest
    \/ StatsRequest
    \/ InvalidRequest
    \/ WalkFind
    \/ WalkItem
    \/ WalkReturn
    \/ ArchiveEnd
    \/ StreamClose
    \/ Return
    \/ Connect
    \/ Disconnect

Spec == Init /\ [][Next]_vars

TypeOK ==
    /\ connected \in BOOLEAN
    /\ pc \in {"idle", "done", "streaming"}
    /\ store \in StoreConfigs
    /\ storeFailed \in BOOLEAN

(***************************************************************************)
(* Fixture fabrication: FileSystemFabricator.createFabricatedFileSystem    *)
(* and DummyDataGenerator.generateTestData, followed by the requests the   *)
(* API tests send against the fabricated tree.  Paths here are sequences   *)
(* of segment names below the data directory.                              *)
(***************************************************************************)
NumJobs == 25

TestResults == "test_pipeline_results"

testTypes == <<"integration", "unit", "e2e", "performance", "smoke",
               "regression", "security", "load", "api", "ui">>

statuses == <<"passed", "failed", "passed", "passed", "failed",
              "passed", "passed", "failed", "passed", "passed">>

Categories == <<"unit_tests", "integration_tests", "e2e_tests">>

padStart3(i) ==
    IF i < 10 THEN "00" \o ToString(i)
    ELSE IF i < 100 THEN "0" \o ToString(i)
    ELSE ToString(i)

JobId(i) == "job_" \o padStart3(i)

FabDir(segs) == [segs |-> segs, isFolder |-> TRUE, content |-> ""]

FabFile(segs, content) == [segs |-> segs, isFolder |-> FALSE, content |-> content]

createTestJob(jobId, testType, status, baseDir) ==
    LET jobDir == Append(baseDir, jobId)
    IN { FabDir(jobDir),
         FabFile(Append(jobDir, testType \o "_test.log"),
                 "generateTestLog(" \o testType \o "," \o status \o ")"),
         FabFile(Append(jobDir, "error.log"), "generateErrorLog(" \o status \o ")"),
         FabFile(Append(jobDir, "debug.log"), "generateDebugLog(" \o testType \o ")"),
         FabFile(Append(jobDir, "test_report.html"), "generateTestReport(" \o jobId \o ")"),
         FabFile(Append(jobDir, "test_results.json"), "generateTestResultsJson(" \o jobId \o ")"),
         FabFile(Append(jobDir, "coverage_report.html"), "generateCoverageReport(" \o testType \o ")"),
         FabFile(Append(jobDir, "performance.json"), "generatePerformanceData()"),
         FabFile(Append(jobDir, "metrics.csv"), "generateMetricsCsv(" \o testType \o ")") }

createTestCategory(categoryName, baseDir) ==
    LET categoryDir == Append(baseDir, categoryName)
        resultsDir == Append(categoryDir, "results")
    IN { FabDir(categoryDir),
         FabFile(Append(categoryDir, "summary.txt"), "generateCategorySummary(" \o categoryName \o ")"),
         FabFile(Append(categoryDir, "README.md"), "generateCategoryReadme(" \o categoryName \o ")"),
         FabFile(Append(categoryDir, "config.json"), "generateCategoryConfig(" \o categoryName \o ")"),
         FabDir(resultsDir),
         FabFile(Append(resultsDir, "test_suite_1.json"), "generateTestSuite(suite_1," \o categoryName \o ")"),
         FabFile(Append(resultsDir, "coverage_summary.html"), "generateCoverageSummary(" \o categoryName \o ")") }

NoFabResponse == [op |-> "", path |-> <<>>, status |-> 0, items |-> {}, body |-> ""]

FabResponse(op, path, status, items, body) ==
    [op |-> op, path |-> path, status |-> status, items |-> items, body |-> body]

Job12345 == <<TestResults, "job_12345">>

Job12345Log == Append(Job12345, "integration_test.log")

TestedPaths ==
    { <<TestResults>>, Job12345, Job12345Log,
      <<"non_existent_directory">>, <<"non_existent_file.log">> }

FabChildren(tree, path) ==
    { e \in tree : Len(e.segs) = Len(path) + 1 /\ SubSeq(e.segs, 1, Len(path)) = path }

FabLookup(tree, path) == { e \in tree : e.segs = path }

fabListDirectory(path) ==
    LET fromStore == FabChildren(fabStore, path)
        contents == IF fromStore # {} THEN fromStore ELSE FabChildren(fixture, path)
    IN FabResponse("list", path, 200, { e.segs[Len(e.segs)] : e \in contents }, "")

fabGetFileContent(path) ==
    LET inStore == { e \in FabLookup(fabStore, path) : ~e.isFolder }
        onDisk == FabLookup(fixture, path)
        found == IF inStore # {} THEN inStore ELSE onDisk
    IN IF found = {} THEN FabResponse("read", path, 404, {}, "File not found")
       ELSE IF \E e \in found : e.isFolder
            THEN FabResponse("read", path, 400, {}, "Path is not a file")
            ELSE FabResponse("read", path, 200, {}, (CHOOSE e \in found : TRUE).content)

FabInit ==
    /\ connected = FALSE
    /\ store = StoreEmpty
    /\ pc = "idle"
    /\ last = NoCall
    /\ resp = NoResponse
    /\ archive = NoArchive
    /\ walk = <<>>
    /\ failures = {}
    /\ storeFailed = FALSE
    /\ sent = <<>>
    /\ disk = FsAll
    /\ migration = NoMigration
    /\ boot = NotStarted
    /\ portsInUse = {}
    /\ fixture = {}
    /\ fabStore = {}
    /\ fabPc = "start"
    /\ fabIndex = 0
    /\ fabResp = NoFabResponse

FabEnsureDirectories ==
    /\ fabPc = "start"
    /\ fixture' = fixture \cup {FabDir(<<TestResults>>)}
    /\ fabIndex' = 1
    /\ fabPc' = "jobs"
    /\ UNCHANGED <<fabStore, fabResp>>
    /\ UNCHANGED nonFabVars

FabCreateTestJob ==
    /\ fabPc = "jobs"
    /\ fixture' = fixture \cup createTestJob(JobId(fabIndex),
                                             testTypes[(fabIndex % Len(testTypes)) + 1],
                                             statuses[(fabIndex % Len(statuses)) + 1],
                                             <<TestResults>>)
    /\ IF fabIndex < NumJobs
       THEN fabIndex' = fabIndex + 1 /\ fabPc' = "jobs"
       ELSE fabIndex' = 1 /\ fabPc' = "categories"
    /\ UNCHANGED <<fabStore, fabResp>>
    /\ UNCHANGED nonFabVars

FabCreateTestCategory ==
    /\ fabPc = "categories"
    /\ fixture' = fixture \cup createTestCategory(Categories[fabIndex], <<TestResults>>)
    /\ IF fabIndex < Len(Categories)
       THEN fabIndex' = fabIndex + 1 /\ fabPc' = "categories"
       ELSE fabIndex' = 0 /\ fabPc' = "migrate"
    /\ UNCHANGED <<fabStore, fabResp>>
    /\ UNCHANGED nonFabVars

FabMigrate ==
    /\ fabPc = "migrate"
    /\ \E migrated \in BOOLEAN :
          fabStore' = IF migrated THEN fixture ELSE {}
    /\ fabPc' = "ready"
    /\ UNCHANGED <<fixture, fabIndex, fabResp>>
    /\ UNCHANGED nonFabVars

FixtureRequestPaths == { e.segs : e \in fixture } \cup TestedPaths

FixtureListRequest ==
    /\ fabPc = "ready"
    /\ \E path \in FixtureRequestPaths : fabResp' = fabListDirectory(path)
    /\ fabPc' = "responded"
    /\ UNCHANGED <<fixture, fabStore, fabIndex>>
    /\ UNCHANGED nonFabVars

FixtureReadRequest ==
    /\ fabPc = "ready"
    /\ \E path \in FixtureRequestPaths : fabResp' = fabGetFileContent(path)
    /\ fabPc' = "responded"
    /\ UNCHANGED <<fixture, fabStore, fabIndex>>
    /\ UNCHANGED nonFabVars

FixtureReturn ==
    /\ fabPc = "responded"
    /\ fabResp' = NoFabResponse
    /\ fabPc' = "ready"
    /\ UNCHANGED <<fixture, fabStore, fabIndex>>
    /\ UNCHANGED nonFabVars

FabNext ==
    \/ FabEnsureDirectories
    \/ FabCreateTestJob
    \/ FabCreateTestCategory
    \/ FabMigrate
    \/ FixtureListRequest
    \/ FixtureReadRequest
    \/ FixtureReturn

FabSpec == FabInit /\ [][FabNext]_vars

(***************************************************************************)
(* Store writes (createFile, updateFile, deleteFile, createDirectory) and  *)
(* the migration of the data directory into the store                      *)
(***************************************************************************)
MaxSaveFailures == 1

StorePaths == { <<"a">>, <<"/", "a">>, <<"/", "a", "/">>, <<"/", "b">>, <<"/">> }

FileDatas ==
    { Entry(Basename(p), p, FALSE, 1, "new", getParentPath(normalizePath(p))) :
        p \in {<<"a">>, <<"/", "a">>, <<"/", "a", "/">>} }
        \cup { Entry(Undefined, <<"/", "b">>, FALSE, 1, "new", Slash) }

UpdateDatas ==
    { [field |-> "content", value |-> "upd"] }
        \cup { [field |-> "path", value |-> <<"a">>] }

Effect(newStore, newDisk, result) == [store |-> newStore, disk |-> newDisk, result |-> result]

Validates(doc) == doc.name \notin {Undefined, Empty} /\ doc.path \notin {Undefined, Empty}

save(doc, saveOk) ==
    IF saveOk /\ Validates(doc) /\ ~\E r \in store : r.path = doc.path
    THEN Ok(store \cup {doc})
    ELSE Err("save failed")

createFile(fileData, saveOk) ==
    LET saved == save(fileData, saveOk)
    IN IF saved.ok THEN Effect(saved.val, disk, Ok(fileData))
       ELSE Effect(store, disk, Err("Failed to create file"))

ApplyUpdate(file, updateData) ==
    IF updateData.field = "content" THEN [file EXCEPT !.content = updateData.value]
    ELSE [file EXCEPT !.path = updateData.value]

updateFile(path, updateData, queryOk) ==
    LET normalizedPath == normalizePath(path)
        file == findOne(normalizedPath)
        updated == ApplyUpdate(file, updateData)
    IN IF ~queryOk THEN Effect(store, disk, Err("Failed to update file"))
       ELSE IF file = Null THEN Effect(store, disk, Ok(Null))
       ELSE IF \E r \in store \ {file} : r.path = updated.path
       THEN Effect(store, disk, Err("Failed to update file"))
       ELSE Effect((store \ {file}) \cup {updated}, disk, Ok(updated))

deleteFile(path, queryOk) ==
    LET normalizedPath == normalizePath(path)
    IN IF ~queryOk THEN Effect(store, disk, Err("Failed to delete file"))
       ELSE Effect({r \in store : r.path # normalizedPath}, disk,
                   Ok(findOne(normalizedPath) # Null))

createDirectoryOnDisk(path, saveOk) ==
    LET normalizedPath == normalizePath(path)
        parentPath == getParentPath(normalizedPath)
        directory == Entry(Basename(normalizedPath), normalizedPath, TRUE, 0, "", parentPath)
        saved == save(directory, saveOk)
    IN IF saved.ok
       THEN Effect(saved.val,
                   disk \cup {[segs |-> JoinDataDir(normalizedPath), isFolder |-> TRUE,
                               size |-> DirSize, content |-> ""]},
                   Ok(directory))
       ELSE Effect(store, disk, Err("Failed to create directory"))

createDirectory(path, saveOk) ==
    LET normalizedPath == normalizePath(path)
        parentPath == getParentPath(normalizedPath)
        directory == Entry(Basename(normalizedPath), normalizedPath, TRUE, 0, "", parentPath)
        saved == save(directory, saveOk)
    IN IF saved.ok THEN Effect(saved.val, disk, Ok(directory))
       ELSE Effect(store, disk, Err("Failed to create directory"))

ReadOps ==
    {"getDirectoryContents", "getFileContent", "getFileInfo", "searchFiles", "getFileStats",
     "getDownloadStream"}

WriteOps == {"createFile", "updateFile", "deleteFile", "createDirectory"}

ReadResult(op, path, conn) ==
    CASE op = "getDirectoryContents" -> getDirectoryContents(path, conn, conn)
      [] op = "getFileContent" -> getFileContent(path, conn, conn)
      [] op = "getFileInfo" -> getFileInfo(path, conn, conn)
      [] op = "searchFiles" -> searchFiles(<<"a">>, MaxLimit, conn, conn)
      [] op = "getFileStats" -> getFileStats(path, conn, conn)
      [] op = "getDownloadStream" -> getDownloadStream(path, conn)

StoreCall(op, path, result) ==
    Call(op, Empty, Empty, 0, connected, result.ok, IF result.ok THEN Ok(<<>>) ELSE result)

StoreInit ==
    /\ connected = TRUE
    /\ store = StoreEmpty
    /\ pc = "idle"
    /\ last = NoCall
    /\ resp = NoResponse
    /\ archive = NoArchive
    /\ walk = <<>>
    /\ failures = {}
    /\ storeFailed = FALSE
    /\ sent = <<>>
    /\ disk = FsAll
    /\ migration = NoMigration
    /\ boot = NotStarted
    /\ portsInUse = {}
    /\ fixture = {}
    /\ fabStore = {}
    /\ fabPc = "off"
    /\ fabIndex = 0
    /\ fabResp = NoFabResponse

StoreFrame ==
    UNCHANGED <<connected, resp, archive, walk, failures, storeFailed, sent,
                fixture, fabStore, fabPc, fabIndex, fabResp, boot, portsInUse>>

Apply(op, path, effect) ==
    /\ store' = effect.store
    /\ disk' = effect.disk
    /\ last' = StoreCall(op, path, effect.result)
    /\ UNCHANGED <<pc, migration>>
    /\ StoreFrame

CreateFileCall ==
    /\ pc = "idle"
    /\ \E fileData \in FileDatas, saveOk \in BOOLEAN :
          Apply("createFile", fileData.path, createFile(fileData, saveOk))

UpdateFileCall ==
    /\ pc = "idle"
    /\ \E path \in {<<"a">>, <<"/", "b">>}, updateData \in UpdateDatas, queryOk \in BOOLEAN :
          Apply("updateFile", path, updateFile(path, updateData, queryOk))

DeleteFileCall ==
    /\ pc = "idle"
    /\ \E path \in StorePaths, queryOk \in BOOLEAN :
          Apply("deleteFile", path, deleteFile(path, queryOk))

CreateDirectoryCall ==
    /\ pc = "idle"
    /\ \E path \in StorePaths, saveOk \in BOOLEAN :
          Apply("createDirectory", path, createDirectory(path, saveOk))

StoreReadCall ==
    /\ pc = "idle"
    /\ \E op \in ReadOps, path \in {<<"a">>, Slash}, conn \in BOOLEAN :
          Apply(op, path, Effect(store, disk, ReadResult(op, path, conn)))

MigrationRecord(segs) ==
    IF segs = <<>> THEN Entry(<<"r", "o", "o", "t">>, Slash, TRUE, 0, "", Undefined)
    ELSE MigratedRecord(statSync(segs))

Children(segs) ==
    LET names == readdirSync(segs)
    IN [i \in 1..Len(names) |-> Append(segs, names[i])]

MigrateStart ==
    /\ pc = "idle"
    /\ \E deleteOk \in BOOLEAN :
          IF deleteOk
          THEN /\ store' = {}
               /\ migration' = [pending |-> << <<>> >>, failed |-> 0]
               /\ pc' = "migrating"
               /\ last' = StoreCall("migrateFileSystemToMongoDB", Slash, Ok(<<>>))
          ELSE /\ last' = StoreCall("migrateFileSystemToMongoDB", Slash, Err("deleteMany failed"))
               /\ UNCHANGED <<store, migration, pc>>
    /\ UNCHANGED disk
    /\ StoreFrame

migrateDirectoryKeepsGoing(segs, saveOk) ==
    LET saved == save(MigrationRecord(segs), saveOk)
        rest == Tail(migration.pending)
        next == IF statSync(segs).isFolder THEN Children(segs) \o rest ELSE rest
    IN IF ~saved.ok
       THEN [store |-> store, pending |-> next, failed |-> migration.failed + 1]
       ELSE [store |-> saved.val, pending |-> next, failed |-> migration.failed]

migrateDirectory(segs, saveOk) ==
    LET saved == save(MigrationRecord(segs), saveOk)
        rest == Tail(migration.pending)
    IN IF ~saved.ok
       THEN [store |-> store, pending |-> rest, failed |-> migration.failed + 1]
       ELSE [store |-> saved.val,
             pending |-> IF statSync(segs).isFolder THEN Children(segs) \o rest ELSE rest,
             failed |-> migration.failed]

MigrateItem ==
    /\ pc = "migrating"
    /\ migration.pending # <<>>
    /\ \E saveOk \in BOOLEAN :
          /\ (~saveOk) => migration.failed < MaxSaveFailures
          /\ LET m == migrateDirectory(Head(migration.pending), saveOk)
             IN /\ store' = m.store
                /\ migration' = [pending |-> m.pending, failed |-> m.failed]
    /\ UNCHANGED <<pc, last, disk>>
    /\ StoreFrame

MigrateEnd ==
    /\ pc = "migrating"
    /\ migration.pending = <<>>
    /\ pc' = "idle"
    /\ migration' = NoMigration
    /\ last' = StoreCall("migrated", Slash, Ok(<<>>))
    /\ UNCHANGED <<store, disk>>
    /\ StoreFrame

StoreNext ==
    \/ CreateFileCall
    \/ UpdateFileCall
    \/ DeleteFileCall
    \/ CreateDirectoryCall
    \/ StoreReadCall
    \/ MigrateStart
    \/ MigrateItem
    \/ MigrateEnd

StoreSpec == StoreInit /\ [][StoreNext]_vars

(***************************************************************************)
(* Startup: startServer, connectDatabase and the port fallback             *)
(***************************************************************************)
PORT == 5000

maxAttempts == 5

CandidatePorts == PORT..(PORT + maxAttempts + 1)

BootInit ==
    /\ connected = FALSE
    /\ store = StoreEmpty
    /\ pc = "idle"
    /\ last = NoCall
    /\ resp = NoResponse
    /\ archive = NoArchive
    /\ walk = <<>>
    /\ failures = {}
    /\ storeFailed = FALSE
    /\ sent = <<>>
    /\ disk = FsAll
    /\ migration = NoMigration
    /\ fixture = {}
    /\ fabStore = {}
    /\ fabPc = "off"
    /\ fabIndex = 0
    /\ fabResp = NoFabResponse
    /\ boot = [NotStarted EXCEPT !.pc = "connecting"]
    /\ portsInUse \in SUBSET CandidatePorts

Exit(b, code) == [b EXCEPT !.pc = "exited", !.exitCode = code]

connectDatabase(b, reachable) ==
    IF reachable THEN [b EXCEPT !.pc = "fabricating", !.storeReachable = TRUE]
    ELSE Exit([b EXCEPT !.storeReachable = FALSE], 1)

BootConnect ==
    /\ boot.pc = "connecting"
    /\ \E reachable \in BOOLEAN : boot' = connectDatabase(boot, reachable)
    /\ UNCHANGED portsInUse
    /\ UNCHANGED nonBootVars

BootFabricate ==
    /\ boot.pc = "fabricating"
    /\ \E generated \in BOOLEAN :
          boot' = IF generated
                  THEN [boot EXCEPT !.pc = "attempt", !.fabricated = TRUE, !.port = PORT,
                                    !.attemptsLeft = maxAttempts]
                  ELSE Exit(boot, 1)
    /\ UNCHANGED portsInUse
    /\ UNCHANGED nonBootVars

attemptListenOneMore(b, port, attemptsLeft, err) ==
    LET listened == [b EXCEPT !.tried = Append(@, port)]
    IN IF err = "EADDRINUSE"
       THEN IF attemptsLeft >= 0
            THEN [listened EXCEPT !.pc = "waiting", !.port = port + 1,
                                  !.attemptsLeft = attemptsLeft - 1]
            ELSE Exit(listened, 1)
       ELSE IF err = "none" THEN [listened EXCEPT !.pc = "listening"]
       ELSE Exit([listened EXCEPT !.otherError = TRUE], 1)

attemptListen(b, port, attemptsLeft, err) ==
    LET listened == [b EXCEPT !.tried = Append(@, port)]
    IN IF err = "EADDRINUSE"
       THEN IF attemptsLeft > 0
            THEN [listened EXCEPT !.pc = "waiting", !.port = port + 1,
                                  !.attemptsLeft = attemptsLeft - 1]
            ELSE Exit(listened, 1)
       ELSE IF err = "none" THEN [listened EXCEPT !.pc = "listening"]
       ELSE Exit([listened EXCEPT !.otherError = TRUE], 1)

ListenErrors(port) == IF port \in portsInUse THEN {"EADDRINUSE"} ELSE {"none", "EACCES"}

BootListen ==
    /\ boot.pc = "attempt"
    /\ \E err \in ListenErrors(boot.port) :
          boot' = attemptListen(boot, boot.port, boot.attemptsLeft, err)
    /\ UNCHANGED portsInUse
    /\ UNCHANGED nonBootVars

BootRetryTimer ==
    /\ boot.pc = "waiting"
    /\ boot' = [boot EXCEPT !.pc = "attempt"]
    /\ UNCHANGED portsInUse
    /\ UNCHANGED nonBootVars

BootNext ==
    \/ BootConnect
    \/ BootFabricate
    \/ BootListen
    \/ BootRetryTimer

BootSpec == BootInit /\ [][BootNext]_vars

BootFairSpec == BootInit /\ [][BootNext]_vars /\ WF_vars(BootNext)

(***************************************************************************)
(* Properties                                                              *)
(***************************************************************************)
FallbackOps == {"getDirectoryContents", "getFileContent", "getFileInfo", "searchFiles", "getFileStats"}

FileSystemResult(call) ==
    CASE call.op = "getDirectoryContents" -> Ok(getDirectoryContentsFromFileSystem(call.norm))
      [] call.op = "getFileContent" -> readFromFileSystem(call.norm)
      [] call.op = "getFileInfo" -> Ok(infoFromFileSystem(call.norm))
      [] call.op = "searchFiles" -> Ok(searchFilesInFileSystem(call.query, call.limit))
      [] call.op = "getFileStats" -> Ok(Aggregate(getDirectoryContentsFromFileSystem(call.norm)))

StoreResult(call) ==
    CASE call.op = "getDirectoryContents" -> Ok(findByParentSorted(call.norm))
      [] call.op = "getFileContent" -> Ok(findOne(call.norm).content)
      [] call.op = "getFileInfo" -> Ok(findOne(call.norm))
      [] call.op = "searchFiles" -> Ok(textSearch(call.query, call.limit))
      [] call.op = "getFileStats" -> Ok(Aggregate(findByParent(call.norm)))

StoreSkipped(call) == ~call.conn \/ ~call.queryOk

\* C1: when the store is not connected or its query fails, each of the five
\* read operations succeeds or fails exactly as the filesystem does and
\* returns exactly the filesystem's value.
C1_FallbackGivesFilesystemResult ==
    (pc = "done" /\ last.op \in FallbackOps /\ StoreSkipped(last)) =>
        /\ last.result.ok = FileSystemResult(last).ok
        /\ last.result.ok => last.result.val = FileSystemResult(last).val

C1_Witness ==
    /\ pc = "done"
    /\ last.op = "getFileStats"
    /\ last.conn
    /\ ~last.queryOk
    /\ ~connected
    /\ last.result.ok
    /\ last.result.val # StoreResult(last).val

\* C2: getDirectoryContents returns the store's listing of the normalized
\* path exactly when the store is connected, the query succeeds and the
\* listing is non-empty; otherwise it returns the filesystem listing.
C2_ListingSource ==
    (pc = "done" /\ last.op = "getDirectoryContents") =>
        /\ last.result.ok
        /\ IF last.conn /\ last.queryOk /\ findByParentSorted(normalizePath(last.path)) # <<>>
           THEN last.result.val = findByParentSorted(normalizePath(last.path))
           ELSE last.result.val = getDirectoryContentsFromFileSystem(normalizePath(last.path))

C2_Witness ==
    /\ pc = "done"
    /\ last.op = "getDirectoryContents"
    /\ last.conn
    /\ last.queryOk
    /\ store # {}
    /\ findByParentSorted(last.norm) = <<>>
    /\ last.result.val # <<>>

IsCanonical(p) ==
    /\ Len(p) >= 1
    /\ p[1] = "/"
    /\ \A i \in 1..(Len(p) - 1) : ~(p[i] = "/" /\ p[i + 1] = "/")
    /\ (p[Len(p)] = "/") => p = Slash

\* C3: for every input, normalizePath returns a path that begins with "/",
\* has no two consecutive separators and no trailing separator unless it is
\* the root; the empty string and "/" both give "/".
C3_NormalizeIsCanonicalAbsolute ==
    (pc = "done" /\ last.op \in FallbackOps \ {"searchFiles"}) =>
        /\ IsCanonical(last.norm)
        /\ (last.path \in {Empty, Slash}) => last.norm = Slash

\* C4: normalizePath is idempotent.
C4_NormalizeIdempotent ==
    (pc = "done" /\ last.op \in FallbackOps \ {"searchFiles"}) =>
        normalizePath(last.norm) = last.norm

C4_Witness ==
    /\ pc = "done"
    /\ last.op = "getFileInfo"
    /\ last.path = <<"a", "/", "/">>
    /\ last.norm = <<"a">>

HasSeparator(p) == \E i \in 1..Len(p) : p[i] = "/"

LastSeparator(p) == CHOOSE i \in 1..Len(p) : p[i] = "/" /\ \A j \in (i + 1)..Len(p) : p[j] # "/"

WithoutLastSegment(p) ==
    IF ~HasSeparator(p) \/ LastSeparator(p) = 1 THEN Slash
    ELSE SubSeq(p, 1, LastSeparator(p) - 1)

InfoFromDisk(call) ==
    /\ call.op = "getFileInfo"
    /\ ~(call.conn /\ call.queryOk /\ findOne(call.norm) # Null)
    /\ call.result.val # Null

\* C5: getParentPath("/") is the empty value; for any other canonical path
\* it is the path without its last segment, "/" for a single segment.
C5_ParentPath ==
    (pc = "done" /\ InfoFromDisk(last)) =>
        last.result.val.parentPath =
            (IF last.result.val.path = Slash THEN Empty
             ELSE WithoutLastSegment(last.result.val.path))

C5_Witness ==
    /\ pc = "done"
    /\ InfoFromDisk(last)
    /\ last.norm = <<"/", "a", "/", "b">>
    /\ last.result.val.parentPath = <<"/", "a">>

\* C6: whenever the info lookup of a download request resolves to a folder,
\* the response is 200 with Content-Type application/zip and an attachment
\* disposition whose filename is <basename>.zip.
C6_FolderDownloadIsZip ==
    (pc \in {"done", "streaming"} /\ last.op = "downloadItem"
        /\ resp.info # Null /\ resp.info.isFolder) =>
        /\ resp.status = 200
        /\ resp.contentType = "application/zip"
        /\ resp.disposition = "attachment"
        /\ resp.filename = Basename(last.path) \o ZipSuffix

RECURSIVE IsUnder(_, _, _)
IsUnder(r, rootPath, fuel) ==
    /\ fuel > 0
    /\ \/ r.parentPath = rootPath
       \/ \E d \in store : d.isFolder /\ d.path = r.parentPath /\ IsUnder(d, rootPath, fuel - 1)

FilesUnder(rootPath) ==
    {r.path : r \in {x \in store : ~x.isFolder /\ IsUnder(x, rootPath, Cardinality(store))}}

\* C7: when the archive ends it holds exactly one entry for every non-folder
\* entry transitively under rootPath.
C7_ArchiveCompleteAtEnd ==
    (archive.created /\ archive.ended) =>
        /\ {archive.entries[i].path : i \in 1..Len(archive.entries)} = FilesUnder(archive.rootPath)
        /\ Len(archive.entries) = Cardinality(FilesUnder(archive.rootPath))

ExpectedEntryName(itemPath, rootPath) ==
    IF rootPath = Slash THEN Tail(itemPath)
    ELSE SubSeq(itemPath, Len(rootPath) + 2, Len(itemPath))

\* C8: every name handed to the archive is the file's path relative to
\* rootPath: the root prefix and its separator stripped, nothing else.
C8_EntryNamesRelativeToRoot ==
    \A i \in 1..Len(archive.requested) :
        archive.requested[i].name =
            ExpectedEntryName(archive.requested[i].path, archive.rootPath)

\* C9: if retrieving the children of any folder failed during the build, the
\* archive stream ends in an error instead of completing as a valid archive.
C9_ArchiveFailsClosed ==
    (archive.created /\ archive.ended /\ walk = <<>> /\ archive.failedDirs # {}) =>
        archive.streamError

\* C10: the error of a failed getFileContent tells NotFound from NotAFile.
C10_ContentErrorsDistinguishable ==
    \A f1 \in failures, f2 \in failures :
        f1.cause # f2.cause => f1.err # f2.err

\* C11: a read request whose path resolves to a folder is answered with
\* status 400 and error "Path is not a file", and no content is sent.
C11_ReadFolderIs400 ==
    (pc = "done" /\ last.op = "getFileContentHandler"
        /\ resp.info # Null /\ resp.info.isFolder) =>
        /\ resp.status = 400
        /\ resp.error = "Path is not a file"
        /\ ~resp.success
        /\ resp.body = ""

C11_Witness ==
    /\ pc = "done"
    /\ last.op = "getFileContentHandler"
    /\ resp.info # Null
    /\ resp.info.isFolder
    /\ ~resp.infoConn
    /\ resp.status = 400

AbsentEverywhere(path) ==
    /\ \A r \in store : r.path # path
    /\ ~existsSync(JoinDataDir(path))

\* C12: for a path absent from both the store and the filesystem, read and
\* info answer 404 "File not found" and download answers 404 "Item not
\* found", with the store connected or not.
C12_AbsentIs404 ==
    (pc = "done" /\ AbsentEverywhere(last.norm)) =>
        /\ last.op \in {"getFileContentHandler", "getFileInfoHandler"} =>
              (resp.status = 404 /\ resp.error = "File not found" /\ ~resp.success)
        /\ last.op = "downloadItem" =>
              (resp.status = 404 /\ resp.error = "Item not found" /\ ~resp.success)

C12_Witness ==
    /\ pc = "done"
    /\ last.op = "getFileInfoHandler"
    /\ AbsentEverywhere(last.norm)
    /\ last.conn
    /\ last.queryOk
    /\ store # {}
    /\ resp.status = 404

\* C13: searchFiles never returns more than limit entries.
C13_SearchAtMostLimit ==
    (pc = "done" /\ last.op = "searchFiles") => Len(last.result.val) <= last.limit

\* C14: searchFiles returns the store's text-search result unchanged when
\* the store is connected and that result is non-empty; otherwise it returns
\* the recursive filesystem search.
C14_SearchSource ==
    (pc = "done" /\ last.op = "searchFiles") =>
        /\ last.result.ok
        /\ IF last.conn /\ last.queryOk /\ textSearch(last.query, last.limit) # <<>>
           THEN last.result.val = textSearch(last.query, last.limit)
           ELSE last.result.val = searchFilesInFileSystem(last.query, last.limit)

C14_Witness ==
    /\ pc = "done"
    /\ last.op = "searchFiles"
    /\ last.conn
    /\ last.queryOk
    /\ textSearch(last.query, last.limit) = <<>>
    /\ last.result.val # <<>>

ImmediateChildren(call) ==
    IF call.conn /\ call.queryOk THEN {r \in store : r.parentPath = call.norm}
    ELSE LET listing == getDirectoryContentsFromFileSystem(call.norm)
         IN {listing[i] : i \in 1..Len(listing)}

RECURSIVE TotalSize(_)
TotalSize(S) ==
    IF S = {} THEN 0
    ELSE LET e == CHOOSE x \in S : TRUE IN e.size + TotalSize(S \ {e})

\* C15: getFileStats counts the N files and M folders that are immediate
\* children and sums the sizes of the N files only.
C15_StatsOneLevel ==
    (pc = "done" /\ last.op = "getFileStats") =>
        LET kids == ImmediateChildren(last)
        IN /\ last.result.ok
           /\ last.result.val.totalFiles = Cardinality({e \in kids : ~e.isFolder})
           /\ last.result.val.totalDirectories = Cardinality({e \in kids : e.isFolder})
           /\ last.result.val.totalSize = TotalSize({e \in kids : ~e.isFolder})

C15_Witness ==
    /\ pc = "done"
    /\ last.op = "getFileStats"
    /\ ~last.conn
    /\ last.norm = <<"/", "a">>
    /\ last.result.val = [totalFiles |-> 1, totalSize |-> 2, totalDirectories |-> 1]

\* C18: a list request for a directory absent from both the store and the
\* filesystem is answered with status 500 and success false.
C18_ListAbsentIs500 ==
    (pc = "done" /\ last.op = "listDirectory" /\ AbsentEverywhere(last.norm)) =>
        (resp.status = 500 /\ ~resp.success)

\* C20: the store-connected flag of the health response equals the state of
\* the store connection at the time of the request.
C20_HealthReportsConnection ==
    (pc = "done" /\ last.op = "health") => resp.mongodbConnected = last.conn

InsideDataDir(fullPath) == fullPath = <<>> \/ fullPath[1] # Up

\* C16: every filesystem location that list, read, info or stats touches
\* lies inside the data directory, also for paths with ".." segments.
C16_StaysInsideDataDir ==
    (pc = "done" /\ last.op \in FallbackOps \ {"searchFiles"} /\ StoreSkipped(last)) =>
        InsideDataDir(JoinDataDir(last.norm))

StoreAnswers(call) ==
    CASE call.op = "getDirectoryContents" -> findByParentSorted(call.norm) # <<>>
      [] call.op = "getFileContent" -> findOne(call.norm) # Null /\ ~findOne(call.norm).isFolder
      [] call.op = "getFileInfo" -> findOne(call.norm) # Null
      [] call.op = "searchFiles" -> textSearch(call.query, call.limit) # <<>>
      [] call.op = "getFileStats" -> TRUE

\* C17: no sticky failure state: after earlier calls that found the store
\* unavailable or failing, a call made while the store is connected queries
\* the store again and returns the store's answer.
C17_NoStickyFailure ==
    (pc = "done" /\ last.op \in FallbackOps /\ storeFailed
        /\ last.conn /\ last.queryOk /\ StoreAnswers(last)) =>
        /\ last.result.ok
        /\ last.result.val = StoreResult(last).val

C17_Witness ==
    /\ pc = "done"
    /\ last.op = "getFileInfo"
    /\ storeFailed
    /\ last.conn
    /\ last.queryOk
    /\ StoreAnswers(last)
    /\ last.result.val # infoFromFileSystem(last.norm)

\* C19: after createFabricatedFileSystem completes, the fixture tree holds
\* test_pipeline_results/job_12345/integration_test.log, listing
\* test_pipeline_results/job_12345 includes integration_test.log and reading
\* that file succeeds.
C19_FixtureHasJob12345 ==
    /\ (fabPc \in {"ready", "responded"}) =>
            \E e \in fixture : e.segs = Job12345Log /\ ~e.isFolder
    /\ (fabPc = "responded" /\ fabResp.op = "list" /\ fabResp.path = Job12345) =>
            "integration_test.log" \in fabResp.items
    /\ (fabPc = "responded" /\ fabResp.op = "read" /\ fabResp.path = Job12345Log) =>
            fabResp.status = 200

Handlers ==
    {"listDirectory", "getFileContentHandler", "downloadItem", "getFileInfoHandler",
     "searchHandler", "statsHandler"}

\* C21: every request to list, file, download, info, search or stats is
\* answered by exactly one response, a success or an error envelope, never
\* both and never a second one after the first.
C21_ExactlyOneResponse ==
    (pc \in {"done", "streaming"} /\ last.op \in Handlers) =>
        /\ Len(sent) = 1
        /\ sent[1] = resp.status
        /\ resp.success = (resp.status = 200)

C21_Witness ==
    /\ pc = "done"
    /\ last.op = "getFileContentHandler"
    /\ sent = <<404>>
    /\ ~resp.success

\* C22: the read operations leave the store's records and the filesystem
\* tree unchanged; createFile, updateFile, deleteFile and createDirectory
\* change only store records, never the filesystem.
C22_ReadsAndWritesFrame ==
    [][ /\ disk' = disk
        /\ (last'.op \in ReadOps) => (store' = store) ]_vars

C22_Witness ==
    /\ last.op = "createDirectory"
    /\ last.queryOk
    /\ \E r \in store : r.path = <<"/", "b">> /\ r.isFolder
    /\ ~existsSync(<<NameB>>)
    /\ disk = FsAll

StoreHas(call) == call.conn /\ call.queryOk /\ \E r \in store : r.path = call.norm

\* C23: getFileInfo returns the store's entry when the store is connected,
\* answers the query and has an entry at the normalized path; otherwise the
\* entry built from the filesystem; and null, not an error, when the path is
\* absent from both.
C23_InfoSource ==
    (pc = "done" /\ last.op = "getFileInfo") =>
        LET fullPath == JoinDataDir(last.norm)
            val == last.result.val
        IN /\ last.result.ok
           /\ StoreHas(last) => (val \in store /\ val.path = last.norm)
           /\ (~StoreHas(last) /\ existsSync(fullPath)) =>
                 /\ val # Null
                 /\ val.path = last.norm
                 /\ val.name = FsBasename(fullPath)
                 /\ val.isFolder = statSync(fullPath).isFolder
                 /\ val.size = statSync(fullPath).size
                 /\ val.content = statSync(fullPath).content
           /\ (~StoreHas(last) /\ ~existsSync(fullPath)) => val = Null

C23_Witness ==
    /\ pc = "done"
    /\ last.op = "getFileInfo"
    /\ last.conn
    /\ last.queryOk
    /\ store # {}
    /\ AbsentEverywhere(last.norm)
    /\ last.result.ok
    /\ last.result.val = Null

\* C26: in one state of the store and the filesystem, totalFiles +
\* totalDirectories of getFileStats(path) equals the number of entries
\* getDirectoryContents(path) returns.
C26_StatsAgreeWithListing ==
    (pc = "done" /\ last.op = "getFileStats" /\ last.result.ok) =>
        LET listing == getDirectoryContents(last.path, last.conn, last.queryOk)
        IN listing.ok =>
              last.result.val.totalFiles + last.result.val.totalDirectories
                  = Len(listing.val)

\* C24: if the store cannot be reached at startup, startServer does not
\* stop the process: it still generates the fixture tree and then begins
\* listening.
C24_StartupSurvivesUnreachableStore ==
    (boot.pc = "exited" /\ ~boot.storeReachable) => boot.fabricated

PortFallbackEnded == boot.pc \in {"listening", "exited"}

\* C30: the port fallback tries PORT, PORT+1, ... in order, makes at most
\* 1 + maxAttempts = 6 listen attempts, stops at the first port that is not
\* in use, exits with code 1 only when all 6 ports are in use or another
\* listen error occurs, and always ends in one of these two outcomes.
C30_PortFallback ==
    /\ [](boot.fabricated =>
            /\ Len(boot.tried) <= 1 + maxAttempts
            /\ \A i \in 1..Len(boot.tried) : boot.tried[i] = PORT + i - 1
            /\ \A i \in 1..(Len(boot.tried) - 1) : boot.tried[i] \in portsInUse
            /\ (boot.pc = "listening") => boot.tried[Len(boot.tried)] \notin portsInUse
            /\ (boot.pc = "exited") =>
                  /\ boot.exitCode = 1
                  /\ \/ boot.otherError
                     \/ \A p \in PORT..(PORT + maxAttempts) : p \in portsInUse)
    /\ [](boot.fabricated => <>PortFallbackEnded)

C30_Witness ==
    /\ boot.pc = "listening"
    /\ Len(boot.tried) = 1 + maxAttempts
    /\ boot.port = PORT + maxAttempts

NameMatches(name, query) == Includes(ToLower(name), ToLower(query))

MatchesOnDisk(query) ==
    {e \in disk : e.segs[1] # Up /\ NameMatches(e.segs[Len(e.segs)], query)}

\* C25: the filesystem search returns only entries whose name contains the
\* query as a case-insensitive substring, and when the whole tree holds at
\* most limit such entries it returns every one of them.
C25_FilesystemSearchComplete ==
    (pc = "done" /\ last.op = "searchFiles" /\ StoreSkipped(last)) =>
        LET results == last.result.val
            matches == MatchesOnDisk(last.query)
        IN /\ \A i \in 1..Len(results) : NameMatches(results[i].name, last.query)
           /\ (Cardinality(matches) <= last.limit) =>
                 /\ Len(results) = Cardinality(matches)
                 /\ {results[i].path : i \in 1..Len(results)}
                        = {SegPath(e.segs) : e \in matches}

C25_Witness ==
    /\ pc = "done"
    /\ last.op = "searchFiles"
    /\ StoreSkipped(last)
    /\ last.query = <<"B">>
    /\ last.limit = 3
    /\ Len(last.result.val) = 3
    /\ \E i \in 1..3 : last.result.val[i].path = <<"/", "a", "/", "a", "/", "b">>

\* C27: after migrateFileSystemToMongoDB finishes, whichever record saves
\* failed, every stored entry other than the root "/" has a parentPath equal
\* to the path of a stored folder entry.
C27_MigratedParentsExist ==
    (last.op = "migrated") =>
        \A r \in store :
            r.path # Slash => \E d \in store : d.isFolder /\ d.path = r.parentPath

C27_Witness ==
    /\ last.op = "migrated"
    /\ \E r \in store : r.path = SegPath(<<NameAB>>)
    /\ ~\E r \in store : r.path = SegPath(<<NameA>>)
    /\ ~\E r \in store : r.path = SegPath(<<NameA, NameB>>)

C29_ReadSurvivesConnectivityChange ==
    (pc = "done" /\ last.op = "getFileContentHandler"
        /\ resp.info # Null /\ ~resp.info.isFolder
        /\ resp.infoConn # connected) =>
        /\ resp.status = 200
        /\ resp.body = resp.info.content

====
